---- MODULE Spec2Model ----
(***************************************************************************)
(* Model of the transcription orchestration of src/src/App.vue: the five   *)
(* reactive refs of the component, the three handlers (openFileDialog,     *)
(* removeFile, transcribeAudio), the two awaited collaborator calls        *)
(* (the native file picker and the engine command "transcribe_audio"),     *)
(* and the gating that the template puts in front of the handlers.         *)
(*                                                                         *)
(* Strings are sequences of tokens: <<>> is the empty string, \o is        *)
(* concatenation.  A path is a sequence of characters, so that the file    *)
(* name can be computed from it the way the handler does.                  *)
(***************************************************************************)
EXTENDS Integers, Sequences, FiniteSets, TLC

\* ---- bounds -------------------------------------------------------------
\* picker dialogs that may be awaiting the user at the same time
MaxDialogs == 1
\* engine calls that may be awaiting their outcome at the same time
MaxCalls == 2

\* ---- inputs -------------------------------------------------------------
\* paths the picker can hand back ("/a", "b\c", "a/")
Paths == { <<"/", "a">>, <<"b", "\\", "c">>, <<"a", "/">> }

\* texts the engine can return: empty, plain, and one with outer blanks
Texts == { <<>>, <<"t">>, <<" ", "t", " ">> }

\* diagnostic messages of the engine
Diagnostics == { <<"model not found">> }

\* descriptions of a rejected invoke() / open() promise
Thrown == { <<>>, <<"spawn failed">> }

\* what `await open(...)` produces: a string, null, or a rejection
PickerOutcomes ==
    [kind : {"string"}, value : Paths \cup {<<>>}]
      \cup [kind : {"null"}, value : {<<>>}]
      \cup [kind : {"throw"}, value : Thrown]

\* what `await invoke("transcribe_audio")` produces: the record
\* {text, success, error?} or a rejection
EngineOutcomes ==
    [kind : {"result"}, success : BOOLEAN, text : Texts,
     hasError : {TRUE}, error : Diagnostics \cup {<<>>}]
      \cup [kind : {"result"}, success : BOOLEAN, text : Texts,
            hasError : {FALSE}, error : {<<>>}]
      \cup [kind : {"throw"}, success : {FALSE}, text : {<<>>},
            hasError : {FALSE}, error : Thrown]

\* ---- literals of the source ---------------------------------------------
\* "Файл не выбран"
MsgNoFile == <<"Fajl ne vybran">>
\* "Неизвестная ошибка при расшифровке"
MsgUnknown == <<"Neizvestnaya oshibka pri rasshifrovke">>
\* "Ошибка при расшифровке: "
MsgTranscribePrefix == <<"Oshibka pri rasshifrovke: ">>
\* "Ошибка при выборе файла: "
MsgPickPrefix == <<"Oshibka pri vybore fajla: ">>
\* "audio.mp3"
DefaultName == <<"audio.mp3">>

\* ---- state --------------------------------------------------------------
VARIABLES
    audioFile,      \* <<>> for null, <<[name, size]>> for a File
    audioFilePath,  \* string
    isProcessing,   \* boolean
    transcription,  \* string
    error,          \* string
    dialogs,        \* number of open(...) calls awaiting the picker
    calls,          \* engine calls awaiting their outcome, oldest first
    last            \* the handler step taken last, with what it was given

vars == <<audioFile, audioFilePath, isProcessing, transcription, error,
          dialogs, calls, last>>

NoOutcome == [kind |-> "none"]
NoCall == [filePath |-> <<>>, stale |-> FALSE]

Step(op, out, call) == [op |-> op, out |-> out, call |-> call]

\* ---- helpers ------------------------------------------------------------
IsSep(c) == c = "/" \/ c = "\\"

\* selected.split(/[/\\]/).pop()
RECURSIVE LastSegment(_)
LastSegment(p) ==
    IF p = <<>> THEN <<>>
    ELSE IF IsSep(p[Len(p)]) THEN <<>>
    ELSE LastSegment(SubSeq(p, 1, Len(p) - 1)) \o <<p[Len(p)]>>

\* selected.split(/[/\\]/).pop() || "audio.mp3"
FileNameOf(p) == IF LastSegment(p) # <<>> THEN LastSegment(p) ELSE DefaultName

\* { name: fileName, size: 0 } as File
MakeFile(p) == <<[name |-> FileNameOf(p), size |-> 0]>>

\* sequence s without its i-th element
RemoveAt(s, i) == SubSeq(s, 1, i - 1) \o SubSeq(s, i + 1, Len(s))

\* the selection was cleared (history of the awaiting calls)
MarkCleared(cs) == [i \in DOMAIN cs |-> [cs[i] EXCEPT !.stale = TRUE]]

\* the selection was replaced by p (history of the awaiting calls)
MarkReplaced(cs, p) ==
    [i \in DOMAIN cs |->
        [cs[i] EXCEPT !.stale = cs[i].stale \/ cs[i].filePath # p]]

Init ==
    /\ audioFile = <<>>
    /\ audioFilePath = <<>>
    /\ isProcessing = FALSE
    /\ transcription = <<>>
    /\ error = <<>>
    /\ dialogs = 0
    /\ calls = <<>>
    /\ last = Step("init", NoOutcome, NoCall)

\* ---- openFileDialog -----------------------------------------------------
\* up to the await: the picker is opened
openFileDialog ==
    /\ dialogs < MaxDialogs
    /\ dialogs' = dialogs + 1
    /\ last' = Step("openFileDialog", NoOutcome, NoCall)
    /\ UNCHANGED <<audioFile, audioFilePath, isProcessing, transcription,
                   error, calls>>

\* the test of line 34 without its truthiness half
PickAccepted_AnyString(r) == r.kind = "string"

\* selected && typeof selected === "string"
PickAccepted(r) == r.kind = "string" /\ r.value # <<>>

\* openFileDialog leaving the previous result on display after a pick
openFileDialogResume_KeepsResult(r) ==
    /\ dialogs > 0
    /\ dialogs' = dialogs - 1
    /\ last' = Step("openFileDialogResume", r, NoCall)
    /\ IF r.kind = "throw"
       THEN /\ error' = MsgPickPrefix \o r.value
            /\ UNCHANGED <<audioFile, audioFilePath, isProcessing,
                           transcription, calls>>
       ELSE IF PickAccepted(r)
       THEN /\ audioFilePath' = r.value
            /\ audioFile' = MakeFile(r.value)
            /\ error' = <<>>
            /\ calls' = MarkReplaced(calls, r.value)
            /\ UNCHANGED <<isProcessing, transcription>>
       ELSE UNCHANGED <<audioFile, audioFilePath, isProcessing,
                        transcription, error, calls>>

\* openFileDialog treating a cancelled picker as a cleared selection
openFileDialogResume_CancelClears(r) ==
    /\ dialogs > 0
    /\ dialogs' = dialogs - 1
    /\ last' = Step("openFileDialogResume", r, NoCall)
    /\ IF r.kind = "throw"
       THEN /\ error' = MsgPickPrefix \o r.value
            /\ UNCHANGED <<audioFile, audioFilePath, isProcessing,
                           transcription, calls>>
       ELSE IF PickAccepted(r)
       THEN /\ audioFilePath' = r.value
            /\ audioFile' = MakeFile(r.value)
            /\ error' = <<>>
            /\ transcription' = <<>>
            /\ calls' = MarkReplaced(calls, r.value)
            /\ UNCHANGED isProcessing
       ELSE /\ audioFilePath' = <<>>
            /\ audioFile' = <<>>
            /\ UNCHANGED <<isProcessing, transcription, error, calls>>

\* openFileDialog dropping the selection when the picker fails
openFileDialogResume_ThrowClears(r) ==
    /\ dialogs > 0
    /\ dialogs' = dialogs - 1
    /\ last' = Step("openFileDialogResume", r, NoCall)
    /\ IF r.kind = "throw"
       THEN /\ error' = MsgPickPrefix \o r.value
            /\ audioFile' = <<>>
            /\ audioFilePath' = <<>>
            /\ UNCHANGED <<isProcessing, transcription, calls>>
       ELSE IF PickAccepted(r)
       THEN /\ audioFilePath' = r.value
            /\ audioFile' = MakeFile(r.value)
            /\ error' = <<>>
            /\ transcription' = <<>>
            /\ calls' = MarkReplaced(calls, r.value)
            /\ UNCHANGED isProcessing
       ELSE UNCHANGED <<audioFile, audioFilePath, isProcessing,
                        transcription, error, calls>>

\* after the await, given the picker's outcome r
openFileDialogResume(r) ==
    /\ dialogs > 0
    /\ dialogs' = dialogs - 1
    /\ last' = Step("openFileDialogResume", r, NoCall)
    /\ IF r.kind = "throw"
       THEN /\ error' = MsgPickPrefix \o r.value
            /\ UNCHANGED <<audioFile, audioFilePath, isProcessing,
                           transcription, calls>>
       ELSE IF PickAccepted(r)
       THEN /\ audioFilePath' = r.value
            /\ audioFile' = MakeFile(r.value)
            /\ error' = <<>>
            /\ transcription' = <<>>
            /\ calls' = MarkReplaced(calls, r.value)
            /\ UNCHANGED isProcessing
       ELSE UNCHANGED <<audioFile, audioFilePath, isProcessing,
                        transcription, error, calls>>

\* ---- removeFile ---------------------------------------------------------
\* removeFile leaving the error message in place
removeFile_KeepsError ==
    /\ audioFile' = <<>>
    /\ audioFilePath' = <<>>
    /\ transcription' = <<>>
    /\ calls' = MarkCleared(calls)
    /\ last' = Step("removeFile", NoOutcome, NoCall)
    /\ UNCHANGED <<error, isProcessing, dialogs>>

\* removeFile also resetting the processing flag
removeFile_ResetsProcessing ==
    /\ audioFile' = <<>>
    /\ audioFilePath' = <<>>
    /\ transcription' = <<>>
    /\ error' = <<>>
    /\ isProcessing' = FALSE
    /\ calls' = MarkCleared(calls)
    /\ last' = Step("removeFile", NoOutcome, NoCall)
    /\ UNCHANGED dialogs

\* removeFile resetting the File object but not the path
removeFile_KeepsPath ==
    /\ audioFile' = <<>>
    /\ transcription' = <<>>
    /\ error' = <<>>
    /\ calls' = MarkCleared(calls)
    /\ last' = Step("removeFile", NoOutcome, NoCall)
    /\ UNCHANGED <<audioFilePath, isProcessing, dialogs>>

\* removeFile reporting that there was nothing to remove
removeFile_ComplainsWhenEmpty ==
    /\ audioFile' = <<>>
    /\ audioFilePath' = <<>>
    /\ transcription' = <<>>
    /\ error' = IF audioFile = <<>> THEN MsgNoFile ELSE <<>>
    /\ calls' = MarkCleared(calls)
    /\ last' = Step("removeFile", NoOutcome, NoCall)
    /\ UNCHANGED <<isProcessing, dialogs>>

removeFile ==
    /\ audioFile' = <<>>
    /\ audioFilePath' = <<>>
    /\ transcription' = <<>>
    /\ error' = <<>>
    /\ calls' = MarkCleared(calls)
    /\ last' = Step("removeFile", NoOutcome, NoCall)
    /\ UNCHANGED <<isProcessing, dialogs>>

\* ---- transcribeAudio ----------------------------------------------------
\* !audioFile.value || !audioFilePath.value
NoSelection == audioFile = <<>> \/ audioFilePath = <<>>

\* transcribeAudio without the validation of lines 59-62
transcribeAudio_NoValidation ==
    /\ Len(calls) < MaxCalls
    /\ isProcessing' = TRUE
    /\ error' = <<>>
    /\ transcription' = <<>>
    /\ calls' = Append(calls, [filePath |-> audioFilePath, stale |-> FALSE])
    /\ last' = Step("transcribeAudio", NoOutcome, calls'[Len(calls')])
    /\ UNCHANGED <<audioFile, audioFilePath, dialogs>>

\* transcribeAudio leaving the previous result on display until the
\* outcome arrives
transcribeAudio_KeepsOldResult ==
    IF NoSelection
    THEN /\ error' = MsgNoFile
         /\ last' = Step("transcribeAudioRejected", NoOutcome, NoCall)
         /\ UNCHANGED <<audioFile, audioFilePath, isProcessing,
                        transcription, dialogs, calls>>
    ELSE /\ Len(calls) < MaxCalls
         /\ isProcessing' = TRUE
         /\ error' = <<>>
         /\ calls' = Append(calls, [filePath |-> audioFilePath,
                                    stale |-> FALSE])
         /\ last' = Step("transcribeAudio", NoOutcome, calls'[Len(calls')])
         /\ UNCHANGED <<audioFile, audioFilePath, dialogs, transcription>>

\* up to the await: validation, then the engine call is issued
transcribeAudio ==
    IF NoSelection
    THEN /\ error' = MsgNoFile
         /\ last' = Step("transcribeAudioRejected", NoOutcome, NoCall)
         /\ UNCHANGED <<audioFile, audioFilePath, isProcessing,
                        transcription, dialogs, calls>>
    ELSE /\ Len(calls) < MaxCalls
         /\ isProcessing' = TRUE
         /\ error' = <<>>
         /\ transcription' = <<>>
         /\ calls' = Append(calls, [filePath |-> audioFilePath,
                                    stale |-> FALSE])
         /\ last' = Step("transcribeAudio", NoOutcome, calls'[Len(calls')])
         /\ UNCHANGED <<audioFile, audioFilePath, dialogs>>

\* the failure branch ignoring the diagnostic
FailureMessage_AlwaysGeneric(o) == MsgUnknown

\* result.error || "Неизвестная ошибка при расшифровке"
FailureMessage(o) ==
    IF o.hasError /\ o.error # <<>> THEN o.error ELSE MsgUnknown

\* the reset placed at the end of the try block instead of in finally
Finally_OnlyWithoutThrow ==
    isProcessing' = IF last'.out.kind = "throw" THEN isProcessing ELSE FALSE

\* the finally block
Finally == isProcessing' = FALSE

\* transcribeAudio without its catch block: a rejection sets no message
transcribeAudioResume_NoCatch(i, o) ==
    /\ i \in DOMAIN calls
    /\ calls' = RemoveAt(calls, i)
    /\ last' = Step("transcribeAudioResume", o, calls[i])
    /\ IF o.kind = "throw"
       THEN UNCHANGED <<error, transcription>>
       ELSE IF o.success
       THEN /\ transcription' = o.text
            /\ UNCHANGED error
       ELSE /\ error' = IF o.hasError /\ o.error # <<>>
                         THEN o.error ELSE MsgUnknown
            /\ UNCHANGED transcription
    /\ isProcessing' = FALSE
    /\ UNCHANGED <<audioFile, audioFilePath, dialogs>>

\* transcribeAudio showing the diagnostic of a successful outcome as error
transcribeAudioResume_WarningShown(i, o) ==
    /\ i \in DOMAIN calls
    /\ calls' = RemoveAt(calls, i)
    /\ last' = Step("transcribeAudioResume", o, calls[i])
    /\ IF o.kind = "throw"
       THEN /\ error' = MsgTranscribePrefix \o o.error
            /\ UNCHANGED transcription
       ELSE IF o.success
       THEN /\ transcription' = o.text
            /\ error' = IF o.hasError /\ o.error # <<>> THEN o.error ELSE error
       ELSE /\ error' = IF o.hasError /\ o.error # <<>>
                         THEN o.error ELSE MsgUnknown
            /\ UNCHANGED transcription
    /\ isProcessing' = FALSE
    /\ UNCHANGED <<audioFile, audioFilePath, dialogs>>

\* after the await: the i-th awaiting call gets its outcome o
transcribeAudioResume(i, o) ==
    /\ i \in DOMAIN calls
    /\ calls' = RemoveAt(calls, i)
    /\ last' = Step("transcribeAudioResume", o, calls[i])
    /\ IF o.kind = "throw"
       THEN /\ error' = MsgTranscribePrefix \o o.error
            /\ UNCHANGED transcription
       ELSE IF o.success
       THEN /\ transcription' = o.text
            /\ UNCHANGED error
       ELSE /\ error' = FailureMessage(o)
            /\ UNCHANGED transcription
    /\ Finally
    /\ UNCHANGED <<audioFile, audioFilePath, dialogs>>

\* ---- the template -------------------------------------------------------
\* <div v-if="!audioFile" class="drop-zone" @click="openFileDialog">
DropZoneShown == audioFile = <<>>

\* <div v-else class="file-info">: the remove button and the trigger
FileInfoShown == audioFile # <<>>

\* the trigger without its :disabled binding
TriggerEnabled_NeverDisabled == TRUE

\* <button class="btn-primary" :disabled="isProcessing">
TriggerEnabled == ~isProcessing

ClickDropZone == DropZoneShown /\ openFileDialog

ClickRemove == FileInfoShown /\ removeFile

ClickTranscribe == FileInfoShown /\ TriggerEnabled /\ transcribeAudio

PickerReturns == \E r \in PickerOutcomes : openFileDialogResume(r)

EngineReturns ==
    \E i \in 1..MaxCalls : \E o \in EngineOutcomes : transcribeAudioResume(i, o)

\* the component as the user drives it
Next ==
    \/ ClickDropZone
    \/ ClickRemove
    \/ ClickTranscribe
    \/ PickerReturns
    \/ EngineReturns

Spec == Init /\ [][Next]_vars

\* the handlers called in any order, without the template in front of them
NextHandlers ==
    \/ openFileDialog
    \/ removeFile
    \/ transcribeAudio
    \/ PickerReturns
    \/ EngineReturns

SpecHandlers == Init /\ [][NextHandlers]_vars

TypeOK ==
    /\ Len(audioFile) <= 1
    /\ audioFilePath \in Paths \cup {<<>>}
    /\ isProcessing \in BOOLEAN
    /\ dialogs \in 0..MaxDialogs
    /\ Len(calls) <= MaxCalls

\* ---- properties ---------------------------------------------------------
\* the step taken last was an invocation of transcribeAudio
Triggered(l) == l.op \in {"transcribeAudio", "transcribeAudioRejected"}

\* the step taken last delivered an engine outcome
Resolved(l) == l.op = "transcribeAudioResume"

\* C1: driven through the rendered UI, at most one engine call is
\* outstanding in every reachable state.
C1_AtMostOneCall == Len(calls) <= 1

\* a call is outstanding while the trigger is rendered and disabled
C1_Witness == Len(calls) = 1 /\ FileInfoShown /\ ~TriggerEnabled

\* C2: an invocation of transcribeAudio while isProcessing is true issues
\* no engine call and leaves isProcessing, transcription and error as
\* they were.
C2_RetriggerRejected ==
    [][(isProcessing /\ Triggered(last'))
         => /\ calls' = calls
            /\ isProcessing' = isProcessing
            /\ transcription' = transcription
            /\ error' = error]_vars

\* C3: the outcome of a call whose selection was cleared or replaced
\* while it was awaited sets neither transcription nor error.
C3_StaleOutcomeDiscarded ==
    [][(Resolved(last') /\ last'.call.stale)
         => /\ transcription' = transcription
            /\ error' = error]_vars

\* C4: an invocation of transcribeAudio with no selection issues no engine
\* call, leaves isProcessing and transcription as they were and sets the
\* validation message.
C4_NoSelectionRejected ==
    [][(NoSelection /\ Triggered(last'))
         => /\ calls' = calls
            /\ isProcessing' = isProcessing
            /\ transcription' = transcription
            /\ error' = MsgNoFile]_vars

\* a trigger was rejected for want of a selection
C4_Witness ==
    /\ last.op = "transcribeAudioRejected"
    /\ NoSelection
    /\ error = MsgNoFile

\* C5: after an engine outcome with the success flag set and text t,
\* transcription is t, error is empty and isProcessing is false.
C5_SuccessState ==
    (Resolved(last) /\ last.out.kind = "result" /\ last.out.success)
      => /\ transcription = last.out.text
         /\ error = <<>>
         /\ isProcessing = FALSE

\* C6: after an engine outcome with the success flag clear, error is the
\* diagnostic when there is one and the generic message otherwise,
\* transcription is empty and isProcessing is false.
C6_FailureState ==
    (Resolved(last) /\ last.out.kind = "result" /\ ~last.out.success)
      => /\ error = IF last.out.hasError /\ last.out.error # <<>>
                    THEN last.out.error
                    ELSE MsgUnknown
         /\ transcription = <<>>
         /\ isProcessing = FALSE

\* an engine-reported failure with its diagnostic on display
C6_Witness ==
    /\ Resolved(last)
    /\ last.out.kind = "result"
    /\ ~last.out.success
    /\ error = <<"model not found">>

\* C7: after a rejected engine call, error is the non-empty message built
\* from the rejection, transcription is empty and isProcessing is false.
C7_TransportFailureState ==
    (Resolved(last) /\ last.out.kind = "throw")
      => /\ error # <<>>
         /\ error = MsgTranscribePrefix \o last.out.error
         /\ transcription = <<>>
         /\ isProcessing = FALSE

\* a rejected engine call with a description, reported
C7_Witness ==
    /\ Resolved(last)
    /\ last.out.kind = "throw"
    /\ last.out.error = <<"spawn failed">>
    /\ Len(error) = 2

\* C8: every engine outcome leaves isProcessing false, with the trigger
\* enabled whenever a file is selected, and a trigger clicked then starts
\* a call.
C8_TerminalThenRetriable ==
    /\ [](Resolved(last)
            => /\ isProcessing = FALSE
               /\ (FileInfoShown => ENABLED ClickTranscribe))
    /\ [][(Resolved(last) /\ FileInfoShown /\ Triggered(last'))
            => /\ isProcessing' = TRUE
               /\ Len(calls') = Len(calls) + 1]_vars

\* a rejected engine call has left the trigger rendered and enabled
C8_Witness ==
    /\ Resolved(last)
    /\ last.out.kind = "throw"
    /\ FileInfoShown
    /\ TriggerEnabled
    /\ ENABLED ClickTranscribe

\* C9 as stated: right after the selection is cleared isProcessing is
\* false and neither a result nor an error remains.
C9_ClearedIsIdle ==
    (last.op = "removeFile")
      => /\ isProcessing = FALSE
         /\ transcription = <<>>
         /\ error = <<>>

\* C9 as amended: clearing the selection removes the selection, the result
\* and the error and leaves isProcessing as it was; the state is idle
\* exactly when no call was outstanding.
C9_ClearedKeepsProcessing ==
    [][(last'.op = "removeFile")
         => /\ audioFile' = <<>>
            /\ audioFilePath' = <<>>
            /\ transcription' = <<>>
            /\ error' = <<>>
            /\ isProcessing' = isProcessing
            /\ (isProcessing' <=> calls' # <<>>)]_vars

\* the selection was cleared while a call was outstanding
C9_Witness ==
    /\ last.op = "removeFile"
    /\ isProcessing
    /\ Len(calls) = 1

\* C10: isProcessing goes from true to false only in the step that
\* delivers the engine's outcome.
C10_OnlyOutcomeEndsRequested ==
    [][(isProcessing /\ ~isProcessing') => Resolved(last')]_vars

\* a file was picked while the call of a cleared selection is still awaited
C10_Witness ==
    /\ last.op = "openFileDialogResume"
    /\ FileInfoShown
    /\ isProcessing
    /\ Len(calls) = 1
    /\ calls[1].stale

\* the step taken last delivered the picker's outcome
PickerResolved(l) == l.op = "openFileDialogResume"

\* C11: right after the selection is cleared with no engine call
\* outstanding, there is no selection, no result, no error, and
\* isProcessing is false.
C11_ClearWithoutCallIsIdle ==
    (last.op = "removeFile" /\ calls = <<>>)
      => /\ audioFile = <<>>
         /\ audioFilePath = <<>>
         /\ transcription = <<>>
         /\ error = <<>>
         /\ isProcessing = FALSE

\* the selection was cleared with no call outstanding
C11_Witness ==
    /\ last.op = "removeFile"
    /\ calls = <<>>
    /\ DropZoneShown

\* C12: right after the picker returned a path p, the selection is p (path
\* and File object, whatever was selected before) and transcription and
\* error are empty.
C12_PickReplacesAndClears ==
    (PickerResolved(last) /\ last.out.kind = "string" /\ last.out.value # <<>>)
      => /\ audioFilePath = last.out.value
         /\ audioFile = <<[name |-> FileNameOf(last.out.value), size |-> 0]>>
         /\ transcription = <<>>
         /\ error = <<>>

\* a path was picked while the call for another path is still awaited
C12_Witness ==
    /\ PickerResolved(last)
    /\ last.out.kind = "string"
    /\ audioFilePath = <<"a", "/">>
    /\ isProcessing
    /\ Len(calls) >= 1
    /\ calls[1].filePath = <<"/", "a">>

\* C13: the step in which the picker reports a cancellation changes none
\* of audioFile, audioFilePath, transcription, error and isProcessing, and
\* issues no engine call.
C13_CancelChangesNothing ==
    [][(PickerResolved(last') /\ last'.out.kind = "null")
         => /\ audioFile' = audioFile
            /\ audioFilePath' = audioFilePath
            /\ transcription' = transcription
            /\ error' = error
            /\ isProcessing' = isProcessing
            /\ calls' = calls]_vars

\* the picker was cancelled with a file selected and its result on display
C13_Witness ==
    /\ PickerResolved(last)
    /\ last.out.kind = "null"
    /\ audioFile # <<>>
    /\ transcription # <<>>

\* C14: a removeFile step that directly follows a removeFile step changes
\* nothing: clearing twice leaves the state that clearing once left.
C14_ClearIdempotent ==
    [][(last.op = "removeFile" /\ last'.op = "removeFile")
         => /\ audioFile' = audioFile
            /\ audioFilePath' = audioFilePath
            /\ transcription' = transcription
            /\ error' = error
            /\ isProcessing' = isProcessing
            /\ calls' = calls
            /\ dialogs' = dialogs]_vars

\* the selection was cleared with a call outstanding, and can be cleared
\* again
C14_Witness ==
    /\ last.op = "removeFile"
    /\ isProcessing
    /\ Len(calls) = 2
    /\ ENABLED removeFile

C16_ResultKeptUntilReplaced ==
    /\ [][(calls = <<>> /\ (transcription' # transcription \/ error' # error))
            => \/ last'.op = "transcribeAudio"
               \/ last'.op = "removeFile"
               \/ PickerResolved(last')]_vars
    /\ [][(calls = <<>> /\ transcription' # transcription)
            => \/ last'.op = "transcribeAudio"
               \/ last'.op = "removeFile"
               \/ (PickerResolved(last') /\ last'.out.kind = "string")]_vars
    /\ [][(last'.op = "transcribeAudio")
            => /\ transcription' = <<>>
               /\ error' = <<>>
               /\ isProcessing' = TRUE
               /\ Len(calls') = Len(calls) + 1]_vars

\* a terminal result still on display after the picker was opened
C16_Witness ==
    /\ last.op = "openFileDialog"
    /\ calls = <<>>
    /\ isProcessing = FALSE
    /\ transcription # <<>>

\* C17: in every reachable state transcription and error are not both
\* non-empty.
C17_NeverResultAndError == ~(transcription # <<>> /\ error # <<>>)

\* C18: in every reachable state isProcessing is true exactly when an
\* engine call is outstanding.
C18_ProcessingIffCallOutstanding == isProcessing <=> (calls # <<>>)

\* a request was just issued: the flag is set and one call is awaited
C18_Witness ==
    /\ last.op = "transcribeAudio"
    /\ isProcessing
    /\ Len(calls) = 1
    /\ FileInfoShown

\* C19: in every reachable state audioFile is non-null exactly when
\* audioFilePath is a non-empty string.
C19_SelectionFieldsAgree == (audioFile # <<>>) <=> (audioFilePath # <<>>)

\* the picker handed back a string and both selection fields are set
C19_Witness ==
    /\ PickerResolved(last)
    /\ last.out.kind = "string"
    /\ audioFile # <<>>
    /\ audioFilePath = <<"b", "\\", "c">>
    /\ audioFile[1].name = <<"c">>

\* C20: the step in which the picker call is rejected sets error to the
\* picker-failure message and changes none of audioFile, audioFilePath,
\* transcription and isProcessing, and issues no engine call.
C20_PickerFailureSetsOnlyError ==
    [][(PickerResolved(last') /\ last'.out.kind = "throw")
         => /\ error' = MsgPickPrefix \o last'.out.value
            /\ audioFile' = audioFile
            /\ audioFilePath' = audioFilePath
            /\ transcription' = transcription
            /\ isProcessing' = isProcessing
            /\ calls' = calls]_vars

\* the picker failed with a file selected and its result on display
C20_Witness ==
    /\ PickerResolved(last)
    /\ last.out.kind = "throw"
    /\ audioFile # <<>>
    /\ transcription # <<>>
    /\ error = MsgPickPrefix \o <<"spawn failed">>
====
